---- MODULE Spec2Model ----
(***************************************************************************)
(* load_q_transform_audio_file (src/src/signal_processing.py): load a      *)
(* segment of an audio file, take its constant-Q transform, raise the      *)
(* magnitude to the 4th power, convert to decibels relative to the peak    *)
(* and return the decibel matrix.                                          *)
(*                                                                         *)
(* Each caller thread invokes the function repeatedly with its own         *)
(* arguments; one action is one statement of the function body, so that    *)
(* the statements of concurrent calls interleave.                          *)
(*                                                                         *)
(* Representation.                                                         *)
(*  - Times are in milliseconds, sample positions are 0-based.             *)
(*  - A file holds a tone: its samples are given by an amplitude envelope  *)
(*    that is constant over runs of EnvRun samples (one envelope per       *)
(*    channel) and by the bin the tone falls in when the samples are       *)
(*    analysed at the file's own rate.                                     *)
(*  - A loaded segment y is the slice descriptor (file, first, n); files   *)
(*    are never written, so the descriptor determines the samples.         *)
(*  - Amplitudes are counted in units of amin (1e-5), the floor of the     *)
(*    decibel conversion, so the floor is 1.                               *)
(*  - A complex number is a record [mag, phase], phase in quadrants.       *)
(*  - A matrix is a sequence of n_bins rows, each a sequence of frames.    *)
(* Requests are those with start_time_s >= 0 inside the file and           *)
(* duration_s > 0.                                                         *)
(***************************************************************************)
EXTENDS Integers, Sequences, FiniteSets, TLC

VARIABLES
    files,      \* path -> audio asset (the file system, read by load)
    args,       \* thread -> the arguments of its calls
    pc,         \* thread -> the statement its current call is about to run
    steps,      \* thread -> the collaborators its current call has invoked
    cqt_kw,     \* thread -> the sr keyword its current call passed to cqt
    data,       \* frame -> local `data` (slice descriptor)
    sr,         \* frame -> local `sr` (native rate returned by load)
    CQT,        \* frame -> local `CQT` (complex matrix)
    CQT_mag,    \* frame -> local `CQT_mag`
    CQTdB,      \* frame -> local `CQTdB`
    ret         \* thread -> the outcome of its last finished call

vars == <<files, args, pc, steps, cqt_kw, data, sr, CQT, CQT_mag, CQTdB, ret>>

----------------------------------------------------------------------------
\* Program constants.

DefaultSampleRate == 48000
hop_length == 1024
n_bins == 96
bins_per_octave == 12

\* Bounds of the model.
MaxStartMs == 25
MaxDurMs == 70
EnvRun == 1024

Threads == {1, 2}

Max(a, b) == IF a >= b THEN a ELSE b
Min(a, b) == IF a <= b THEN a ELSE b

----------------------------------------------------------------------------
\* The file system.

FileSystem ==
    [p \in {"tone.wav", "quiet.flac"} |->
        IF p = "tone.wav"
        THEN [sr |-> 48000, n |-> 3500, pitch |-> 46,
              env |-> << <<100, 100, 10, 10>> >>]
        ELSE [sr |-> 24000, n |-> 1500, pitch |-> 46,
              env |-> << <<0, 0>>, <<0, 0>> >>]]

Paths == {"tone.wav", "quiet.flac", "notes.txt"}

Supported(fs, p) == p \in DOMAIN fs

\* Calls: sample_rate is <<>> when the caller omits it.
Requests ==
    [audio_filepath : Paths,
     start_time_s   : {0, MaxStartMs},
     duration_s     : {50, MaxDurMs},
     sample_rate    : {<<>>, <<96000>>}]

\* Parameter binding of the signature: sample_rate: int = 48000.
SampleRateOf(a) ==
    IF a.sample_rate = <<>> THEN DefaultSampleRate ELSE a.sample_rate[1]

\* The second caller's calls: late start, short duration, default rate.
BackgroundRequests ==
    {a \in Requests : /\ Supported(FileSystem, a.audio_filepath)
                      /\ a.start_time_s = MaxStartMs
                      /\ a.duration_s = 50
                      /\ a.sample_rate = <<>>}

----------------------------------------------------------------------------
\* librosa.load(path, sr=None, mono=True, offset=, duration=)

NoData == [file |-> "", first |-> 0, n |-> 0]
NoMatrix == <<>>

\* Mutant: sr=sample_rate, the segment resampled to the caller's rate.
LoadRateTarget(sample_rate, native) == sample_rate

\* sr=None: the rate the segment is delivered at is the file's own.
LoadRate(sample_rate, native) == native

\* Mutant: the requested count is delivered whatever remains.
ReadAll(requested, remaining) == requested

\* duration=: at most the frames that remain after the offset are read.
ReadFrames(requested, remaining) == Min(requested, remaining)

load(fs, a) ==
    LET f      == fs[a.audio_filepath]
        rate   == LoadRate(SampleRateOf(a), f.sr)
        length == (f.n * rate) \div f.sr
        first  == (a.start_time_s * rate) \div 1000
        want   == (a.duration_s * rate) \div 1000
    IN  <<[file  |-> a.audio_filepath,
           first |-> first,
           n     |-> ReadFrames(want, Max(length - first, 0))],
          rate>>

\* mono=True: sample k of the segment, channels averaged.
RECURSIVE Sum(_)
Sum(s) == IF s = <<>> THEN 0 ELSE Head(s) + Sum(Tail(s))

Sample(fs, y, k) ==
    LET f   == fs[y.file]
        run == ((y.first + k) \div EnvRun) + 1
    IN  Sum([c \in 1..Len(f.env) |->
                IF run <= Len(f.env[c]) THEN f.env[c][run] ELSE 0])
        \div Len(f.env)

----------------------------------------------------------------------------
\* librosa.cqt(y, sr=, hop_length=, fmin=None, n_bins=, bins_per_octave=)

RECURSIVE Octaves(_, _)
\* log2(assumed / native) for rates a power of two apart.
Octaves(assumed, native) ==
    IF assumed = native THEN 0
    ELSE IF assumed > native THEN 1 + Octaves(assumed, 2 * native)
    ELSE Octaves(2 * assumed, native) - 1

\* Mutant: sr=sr, the rate found at load time.
CqtRateNative(sample_rate, native) == native

\* The rate the transform is told the samples have.
CqtRate(sample_rate, native) == sample_rate

cqt(fs, y, rate, hop, bins, bpo) ==
    LET f    == fs[y.file]
        peak == f.pitch + bpo * Octaves(rate, f.sr)
    IN  [b \in 1..bins |->
            [k \in 1..(1 + y.n \div hop) |->
                [mag   |-> IF b = peak
                           THEN Sample(fs, y, Min((k - 1) * hop, y.n - 1))
                           ELSE 0,
                 phase |-> (b + k) % 4]]]

----------------------------------------------------------------------------
\* librosa.magphase(D)[0] ** 4

magphase(D) ==
    <<[b \in DOMAIN D |-> [k \in DOMAIN D[b] |-> D[b][k].mag]],
      [b \in DOMAIN D |-> [k \in DOMAIN D[b] |-> D[b][k].phase]]>>

\* Mutant: ** 2.
Square(x) == x * x

Emphasis(x) == x * x * x * x

MatPow(S) == [b \in DOMAIN S |-> [k \in DOMAIN S[b] |-> Emphasis(S[b][k])]]

----------------------------------------------------------------------------
\* librosa.core.amplitude_to_db(S, ref=np.amax)  (amin=1e-5, top_db=80.0)

RECURSIVE Log10(_)
Log10(x) == IF x < 10 THEN 0 ELSE 1 + Log10(x \div 10)

Entries(S) == UNION {{S[b][k] : k \in DOMAIN S[b]} : b \in DOMAIN S}

SetMax(X) == CHOOSE x \in X : \A y \in X : y <= x

\* Mutant: ref left at its default 1.0, which is 100000 units of amin.
RefUnit(S) == 100000

\* ref=np.amax
Ref(S) == SetMax(Entries(S))

amplitude_to_db(S) ==
    LET ref  == Ref(S)
        raw  == [b \in DOMAIN S |-> [k \in DOMAIN S[b] |->
                    20 * Log10(Max(1, S[b][k])) - 20 * Log10(Max(1, ref))]]
        top  == SetMax(Entries(raw))
    IN  [b \in DOMAIN S |-> [k \in DOMAIN S[b] |-> Max(raw[b][k], top - 80)]]

----------------------------------------------------------------------------
\* The call.

\* Mutant: the locals are module-level, one frame for all calls.
SharedFrame(t) == 1

\* Locals live in the frame of the call: one frame per thread.
Frame(t) == t

Pipeline == <<"load", "cqt", "magphase", "amplitude_to_db">>

NoOutcome == [status |-> "none", value |-> NoMatrix,
              error |-> [by |-> "", kind |-> ""], steps |-> <<>>]

\* Mutant: the exception is caught and an empty matrix returned.
Fallback(done, by, kind) ==
    [status |-> "returned", value |-> NoMatrix,
     error |-> [by |-> "", kind |-> ""], steps |-> done]

\* An exception raised by a collaborator leaves the function as it is.
Unwind(done, by, kind) ==
    [status |-> "raised", value |-> NoMatrix,
     error |-> [by |-> by, kind |-> kind], steps |-> done]

Init ==
    /\ files = FileSystem
    /\ args \in {f \in [Threads -> Requests] : f[2] \in BackgroundRequests}
    /\ pc = [t \in Threads |-> "load"]
    /\ steps = [t \in Threads |-> <<>>]
    /\ cqt_kw = [t \in Threads |-> 0]
    /\ data = [t \in Threads |-> NoData]
    /\ sr = [t \in Threads |-> 0]
    /\ CQT = [t \in Threads |-> NoMatrix]
    /\ CQT_mag = [t \in Threads |-> NoMatrix]
    /\ CQTdB = [t \in Threads |-> NoMatrix]
    /\ ret = [t \in Threads |-> NoOutcome]

\* The frame of t's call is dropped and its outcome handed to the caller.
Leave(t, outcome) ==
    /\ ret' = [ret EXCEPT ![t] = outcome]
    /\ pc' = [pc EXCEPT ![t] = "load"]
    /\ steps' = [steps EXCEPT ![t] = <<>>]
    /\ cqt_kw' = [cqt_kw EXCEPT ![t] = 0]
    /\ data' = [data EXCEPT ![Frame(t)] = NoData]
    /\ sr' = [sr EXCEPT ![Frame(t)] = 0]
    /\ CQT' = [CQT EXCEPT ![Frame(t)] = NoMatrix]
    /\ CQT_mag' = [CQT_mag EXCEPT ![Frame(t)] = NoMatrix]
    /\ CQTdB' = [CQTdB EXCEPT ![Frame(t)] = NoMatrix]
    /\ UNCHANGED <<files, args>>

\* Mutant: the segment last loaded by any call in progress is reused.
CachedSegment(t) ==
    IF \E u \in Threads : data[u] # NoData
    THEN LET u == CHOOSE u \in Threads : data[u] # NoData
         IN  <<data[u], sr[u]>>
    ELSE load(files, args[t])

\* The segment and rate the load of t's call delivers.
Segment(t) == load(files, args[t])

\* data, sr = librosa.load(...)
LoadOk(t) ==
    /\ pc[t] = "load"
    /\ Supported(files, args[t].audio_filepath)
    /\ LET r == Segment(t)
       IN  /\ data' = [data EXCEPT ![Frame(t)] = r[1]]
           /\ sr' = [sr EXCEPT ![Frame(t)] = r[2]]
    /\ steps' = [steps EXCEPT ![t] = Append(@, "load")]
    /\ pc' = [pc EXCEPT ![t] = "cqt"]
    /\ UNCHANGED <<files, args, cqt_kw, CQT, CQT_mag, CQTdB, ret>>

LoadFail(t) ==
    /\ pc[t] = "load"
    /\ ~Supported(files, args[t].audio_filepath)
    /\ Leave(t, Unwind(Append(steps[t], "load"), "load", "decode"))

\* CQT = librosa.cqt(data, sr=sample_rate, hop_length=1024, ...)
CqtOk(t) ==
    /\ pc[t] = "cqt"
    /\ data[Frame(t)].n > 0
    /\ LET rate == CqtRate(SampleRateOf(args[t]), sr[Frame(t)])
       IN  /\ cqt_kw' = [cqt_kw EXCEPT ![t] = rate]
           /\ CQT' = [CQT EXCEPT ![Frame(t)] =
                        cqt(files, data[Frame(t)], rate,
                            hop_length, n_bins, bins_per_octave)]
    /\ steps' = [steps EXCEPT ![t] = Append(@, "cqt")]
    /\ pc' = [pc EXCEPT ![t] = "magphase"]
    /\ UNCHANGED <<files, args, data, sr, CQT_mag, CQTdB, ret>>

CqtFail(t) ==
    /\ pc[t] = "cqt"
    /\ Leave(t, Unwind(Append(steps[t], "cqt"), "cqt",
                       IF data[Frame(t)].n > 0 THEN "MemoryError"
                                               ELSE "ParameterError"))

\* CQT_mag = librosa.magphase(CQT)[0] ** 4
MagOk(t) ==
    /\ pc[t] = "magphase"
    /\ CQT_mag' = [CQT_mag EXCEPT ![Frame(t)] = MatPow(magphase(CQT[Frame(t)])[1])]
    /\ steps' = [steps EXCEPT ![t] = Append(@, "magphase")]
    /\ pc' = [pc EXCEPT ![t] = "amplitude_to_db"]
    /\ UNCHANGED <<files, args, cqt_kw, data, sr, CQT, CQTdB, ret>>

MagFail(t) ==
    /\ pc[t] = "magphase"
    /\ Leave(t, Unwind(Append(steps[t], "magphase"), "magphase", "MemoryError"))

\* CQTdB = librosa.core.amplitude_to_db(CQT_mag, ref=np.amax)
DbOk(t) ==
    /\ pc[t] = "amplitude_to_db"
    /\ Entries(CQT_mag[Frame(t)]) # {}
    /\ CQTdB' = [CQTdB EXCEPT ![Frame(t)] = amplitude_to_db(CQT_mag[Frame(t)])]
    /\ steps' = [steps EXCEPT ![t] = Append(@, "amplitude_to_db")]
    /\ pc' = [pc EXCEPT ![t] = "return"]
    /\ UNCHANGED <<files, args, cqt_kw, data, sr, CQT, CQT_mag, ret>>

DbFail(t) ==
    /\ pc[t] = "amplitude_to_db"
    /\ Leave(t, Unwind(Append(steps[t], "amplitude_to_db"), "amplitude_to_db",
                       IF Entries(CQT_mag[Frame(t)]) # {} THEN "MemoryError"
                                                          ELSE "ValueError"))

\* return CQTdB
Return(t) ==
    /\ pc[t] = "return"
    /\ Leave(t, [status |-> "returned", value |-> CQTdB[Frame(t)],
                 error |-> [by |-> "", kind |-> ""], steps |-> steps[t]])

Next ==
    \E t \in Threads :
        \/ LoadOk(t)
        \/ LoadFail(t)
        \/ CqtOk(t)
        \/ CqtFail(t)
        \/ MagOk(t)
        \/ MagFail(t)
        \/ DbOk(t)
        \/ DbFail(t)
        \/ Return(t)

Spec == Init /\ [][Next]_vars

----------------------------------------------------------------------------
\* Properties.

Rows(M) == Len(M)
Cols(M) == IF M = <<>> THEN 0 ELSE Len(M[1])

Native(a) == files[a.audio_filepath].sr
FirstSample(a) == (a.start_time_s * Native(a)) \div 1000
Wanted(a) == (a.duration_s * Native(a)) \div 1000
FullCols(a) == (a.duration_s * Native(a)) \div (1000 * 1024) + 1

\* start_time_s + duration_s lies inside the asset.
Inside(a) ==
    /\ Supported(files, a.audio_filepath)
    /\ (a.start_time_s + a.duration_s) * Native(a)
          <= files[a.audio_filepath].n * 1000

\* start_time_s lies inside the asset, start_time_s + duration_s beyond it.
Truncated(a) ==
    /\ Supported(files, a.audio_filepath)
    /\ a.start_time_s * Native(a) < files[a.audio_filepath].n * 1000
    /\ (a.start_time_s + a.duration_s) * Native(a)
          > files[a.audio_filepath].n * 1000

AfterLoad == {"cqt", "magphase", "amplitude_to_db", "return"}
AfterCqt == {"magphase", "amplitude_to_db", "return"}
AfterMag == {"amplitude_to_db", "return"}

\* C1: every call that returns has invoked the range limiter cqt_lim exactly
\* once, as its last step after the decibel conversion, so that the matrix it
\* returns is the limiter's output.
C1_LimiterApplied ==
    \A t \in Threads :
        ret[t].status = "returned" =>
            /\ Cardinality({i \in DOMAIN ret[t].steps :
                              ret[t].steps[i] = "cqt_lim"}) = 1
            /\ ret[t].steps[Len(ret[t].steps)] = "cqt_lim"

\* C2: the decibel matrix of a non-empty transform, silent or not, has
\* maximum exactly 0 and no entry above 0.
C2_PeakIsZero ==
    \A t \in Threads :
        pc[t] = "return" =>
            /\ 0 \in Entries(CQTdB[Frame(t)])
            /\ \A e \in Entries(CQTdB[Frame(t)]) : e <= 0

C2_Witness ==
    \E t \in Threads :
        /\ pc[t] = "return"
        /\ Entries(CQT_mag[Frame(t)]) = {0}
        /\ Cols(CQTdB[Frame(t)]) >= 1

\* C3: for a request inside the asset the returned matrix has 96 rows and
\* its number of columns is within 1 of
\* floor(duration_s * native_sample_rate / 1024) + 1.
C3_Shape ==
    \A t \in Threads :
        (ret[t].status = "returned" /\ Inside(args[t])) =>
            /\ Rows(ret[t].value) = 96
            /\ Cols(ret[t].value) - FullCols(args[t]) \in {-1, 0, 1}

C3_Witness ==
    \E t \in Threads :
        /\ ret[t].status = "returned"
        /\ Inside(args[t])
        /\ Native(args[t]) # SampleRateOf(args[t])

\* C4: the segment is loaded at the file's native rate whatever sample_rate
\* is (same samples for every sample_rate), and the transform is told
\* exactly the caller's sample_rate (48000 when omitted), never the native
\* rate found at load time.
C4_SampleRateOnlyToCqt ==
    /\ \A t \in Threads :
        /\ pc[t] \in AfterLoad =>
            /\ sr[Frame(t)] = Native(args[t])
            /\ data[Frame(t)] =
                 [file  |-> args[t].audio_filepath,
                  first |-> FirstSample(args[t]),
                  n     |-> Min(Wanted(args[t]),
                                files[args[t].audio_filepath].n
                                    - FirstSample(args[t]))]
        /\ pc[t] \in AfterCqt =>
            cqt_kw[t] = IF args[t].sample_rate = <<>> THEN 48000
                        ELSE args[t].sample_rate[1]
    /\ \A t, u \in Threads :
        ( /\ pc[t] \in AfterLoad
          /\ pc[u] \in AfterLoad
          /\ args[t].audio_filepath = args[u].audio_filepath
          /\ args[t].start_time_s = args[u].start_time_s
          /\ args[t].duration_s = args[u].duration_s )
        => data[Frame(t)] = data[Frame(u)]

C4_Witness ==
    \E t \in Threads :
        /\ pc[t] \in AfterCqt
        /\ args[t].sample_rate = <<>>
        /\ cqt_kw[t] # sr[Frame(t)]

IsPrefix(s, full) == Len(s) <= Len(full) /\ s = SubSeq(full, 1, Len(s))

\* C5: a failing step ends the call in that failure: the failing step is the
\* last one run, no step ran twice, no matrix comes back, and the error is
\* the one the failing collaborator raised.
C5_FailurePropagates ==
    \A t \in Threads :
        /\ ret[t].status = "returned" => ret[t].steps = Pipeline
        /\ ~Supported(files, args[t].audio_filepath) =>
              ret[t].status # "returned"
        /\ ret[t].status = "raised" =>
            /\ ret[t].value = NoMatrix
            /\ Len(ret[t].steps) >= 1
            /\ IsPrefix(ret[t].steps, Pipeline)
            /\ ret[t].error.by = ret[t].steps[Len(ret[t].steps)]
            /\ ret[t].error.kind \in
                 (IF ret[t].error.by = "load" THEN {"decode"}
                  ELSE {"MemoryError"})

C5_Witness ==
    \E t, u \in Threads :
        /\ ret[t].status = "raised" /\ ret[t].error.by = "load"
        /\ ret[u].status = "raised" /\ ret[u].error.by = "magphase"

\* C7: a call that returns hands back the same matrix as every earlier call
\* with the same arguments, by this caller or by another one.
C7_Deterministic ==
    [][\A t \in Threads :
          (pc[t] = "return" /\ pc'[t] = "load") =>
              \A u \in Threads :
                  (ret[u].status = "returned" /\ args[u] = args[t]) =>
                      ret'[t].value = ret[u].value]_vars

C7_Witness ==
    \E t, u \in Threads :
        /\ t # u
        /\ args[t] = args[u]
        /\ ret[t].status = "returned"
        /\ ret[u].status = "returned"
        /\ Cols(ret[t].value) >= 1

\* The result of a call that runs with no other call in progress.
Alone(a) ==
    amplitude_to_db(
        MatPow(magphase(cqt(files, load(files, a)[1], SampleRateOf(a),
                            hop_length, n_bins, bins_per_octave))[1]))

\* A step of thread t: its position or its outcome changes.
Stepped(t) == pc'[t] # pc[t] \/ ret'[t] # ret[t]

\* C8: under every interleaving each call returns what it returns when run
\* alone, no step writes the files, and a step of one call leaves the locals
\* of every other call as they were.
C8_Independent ==
    /\ [](\A t \in Threads :
            ret[t].status = "returned" => ret[t].value = Alone(args[t]))
    /\ [][/\ files' = files
          /\ \A t, u \in Threads :
                (t # u /\ Stepped(t)) =>
                    /\ data'[u] = data[u]
                    /\ sr'[u] = sr[u]
                    /\ CQT'[u] = CQT[u]
                    /\ CQT_mag'[u] = CQT_mag[u]
                    /\ CQTdB'[u] = CQTdB[u]]_vars

C8_Witness ==
    \E t, u \in Threads :
        /\ t # u
        /\ args[t] # args[u]
        /\ pc[u] \in AfterCqt
        /\ ret[t].status = "returned"
        /\ pc[t] \in AfterCqt

C10_FixedPipeline ==
    \A t \in Threads :
        /\ steps[t] = SubSeq(Pipeline, 1,
                             CASE pc[t] = "load" -> 0
                               [] pc[t] = "cqt" -> 1
                               [] pc[t] = "magphase" -> 2
                               [] pc[t] = "amplitude_to_db" -> 3
                               [] pc[t] = "return" -> 4)
        /\ pc[t] \in AfterCqt =>
              CQT[Frame(t)] = cqt(files, data[Frame(t)], cqt_kw[t], 1024, 96, 12)
        /\ pc[t] \in AfterMag =>
            /\ DOMAIN CQT_mag[Frame(t)] = DOMAIN CQT[Frame(t)]
            /\ \A b \in DOMAIN CQT[Frame(t)] :
                /\ DOMAIN CQT_mag[Frame(t)][b] = DOMAIN CQT[Frame(t)][b]
                /\ \A k \in DOMAIN CQT[Frame(t)][b] :
                      CQT_mag[Frame(t)][b][k] = CQT[Frame(t)][b][k].mag ^ 4
        /\ pc[t] = "return" =>
              CQTdB[Frame(t)] = amplitude_to_db(CQT_mag[Frame(t)])
        /\ ret[t].status = "returned" => ret[t].steps = Pipeline

C10_Witness ==
    \E t \in Threads :
        /\ pc[t] = "return"
        /\ \E b \in DOMAIN CQT[Frame(t)] : \E k \in DOMAIN CQT[Frame(t)][b] :
              /\ CQT[Frame(t)][b][k].mag = 10
              /\ CQT[Frame(t)][b][k].phase # 0
              /\ CQTdB[Frame(t)][b][k] = -80

====
